---- MODULE Spec2Model ----
(***************************************************************************)
(* gitops-cli: the versioned artifact provisioner (caddy / hugo upgrade)   *)
(* and the two-stage hugo publish pipeline, as one sequential state        *)
(* machine per run; main of bin/next.rs around the hugo upgrade; and unzip  *)
(* applied to an archive on its own.                                       *)
(*                                                                         *)
(* Text is a sequence of tokens; tokens are chosen so that none is a       *)
(* prefix of another, hence the byte-wise starts_with of the code is the   *)
(* token-wise StartsWith here.                                             *)
(***************************************************************************)
EXTENDS Integers, Sequences, FiniteSets, TLC

VARIABLES
    op,          \* the entry point of this run: "caddy_upgrade" | "hugo_deploy"
                 \* | "unzip" | a subcommand of bin/next.rs
    platform,    \* compile target: "windows" | "linux" | "macos"
    entry_prefix, \* the e_name unzip is called with
    sync_files,  \* [hugo.deploy.oss.sync] files, as indices
    pc,          \* position of the driving task
    result,      \* Running, or what the entry point returned
    version,     \* config.version, held while upgrade runs
    output,      \* what the version probe gave, held until need_fetch is tested
    need_fetch,  \* the local of upgrade; it keeps its last value afterwards
    bytes,       \* the downloaded body, held while upgrade runs
    extracted,   \* (name, contents) returned by unzip
    svc,         \* the caddy service: "running" | "stopped"
    installed,   \* files written next to the executable by this run
    effects,     \* steps the driving task has issued, in program order
    absent,      \* the environment variables that are not set
    stage,       \* deploy_step's for_draft: "none" | "draft" | "production"
    cwd,         \* the process working directory
    public,      \* ./public of the workspace: "absent" or the build it holds
    clone,       \* the scratch clone: "absent" or the public tree it holds
    mirror,      \* the public tree on each branch of the mirror
    mirror0,     \* the mirror as it was when the run began
    oss,         \* the bucket and endpoint the Operator was built with
    tasks,       \* the upload tasks of ConcurrentUploadTasks
    dir_i,       \* the index of `for dir in &sync.dirs`
    store,       \* the objects written to the object store
    notes,       \* the Pushover messages main has tried to send, in order
    secret,      \* the value that must not be logged: the access token, or
                 \* the draft base URL
    log          \* the lines written by tracing::info! that format a secret

\* the locals of upgrade
locals == <<version, output, need_fetch, bytes, extracted>>
\* what a caddy upgrade never touches
hugoWorld == <<absent, stage, cwd, public, clone, mirror, mirror0, oss, tasks, dir_i, store,
               notes, secret, log>>
\* what the publish steps share
fsWorld == <<cwd, public, clone, mirror>>
ossWorld == <<oss, tasks, dir_i, store>>

vars == <<op, platform, entry_prefix, sync_files, pc, result, version, output, need_fetch, bytes,
          extracted, svc, installed, effects, absent, stage, cwd, public, clone,
          mirror, mirror0, oss, tasks, dir_i, store, notes, secret, log>>

----------------------------------------------------------------------------
(* Bounds *)

\* subprocess exit codes range over 0..MaxExit
MaxExit == 2
\* the length of [hugo.deploy.oss.sync] files
NumFiles == 2
\* the length of [hugo.deploy.oss.sync] dirs
NumDirs == 1
\* the number of entries of an archive handed to unzip on its own
MaxEntries == 2
\* the length of an access token and of a base URL, in characters
MaxSecret == 2

----------------------------------------------------------------------------
(* Results *)

\* status.code() = None (killed by a signal), printed as "None"
NoCode == -1
\* cmd.spawn() / cmd.output() itself failed: there is no exit status
SpawnErr == -2

Running == [kind |-> "Running", code |-> NoCode, what |-> "-"]
OkRes == [kind |-> "Ok", code |-> NoCode, what |-> "-"]
Err(kind, code, what) == [kind |-> kind, code |-> code, what |-> what]

ExitStatuses == (0..MaxExit) \cup {NoCode}
FailStatuses == ExitStatuses \ {0}
SpawnOutcomes == ExitStatuses \cup {SpawnErr}

\* a mutant: the exit status is not looked at
spawn_command_unchecked(o, hint) ==
    IF o = SpawnErr THEN Err("Io", NoCode, hint) ELSE OkRes

\* utils::spawn_command: o is what cmd.spawn()?.wait().await? gave
spawn_command(o, hint) ==
    IF o = SpawnErr THEN Err("Io", NoCode, hint)
    ELSE IF o = 0 THEN OkRes
    ELSE Err("ExecutionFailed", o, hint)

----------------------------------------------------------------------------
(* Text *)

StartsWith(s, p) == Len(p) <= Len(s) /\ SubSeq(s, 1, Len(p)) = p

Versions == {<<"1">>, <<"1", "2">>}
NoVersion == <<>>

\* the banner the code formats: "hugo v{}" for hugo, "v{}" for caddy
Banner(tool, v) ==
    IF tool = "hugo" THEN <<"hugo", " ", "v">> \o v ELSE <<"v">> \o v

\* stdout of "<binary> version" when it exits 0
Stdouts ==
    {pre \o <<"v">> \o v \o suf :
        pre \in {<<>>, <<"hugo", " ">>, <<"caddy", " ">>},
        v \in Versions,
        suf \in {<<>>, <<"extra">>}}
    \cup {<<>>}

\* a mutant: the whole stdout must equal the banner
NeedFetchExact(tool, v, stdout) == stdout # Banner(tool, v)

\* need_fetch after a successful probe
NeedFetch(tool, v, stdout) == ~StartsWith(stdout, Banner(tool, v))

\* what Command::new(bin).arg("version").output() can give
ProbeOutcomes ==
    {[status |-> SpawnErr, stdout |-> <<>>]}
    \cup {[status |-> c, stdout |-> <<>>] : c \in FailStatuses}
    \cup {[status |-> 0, stdout |-> s] : s \in Stdouts}
NoOutput == [status |-> SpawnErr, stdout |-> <<>>]

\* a mutant: a failing probe is taken as "version differs"
check_version_lenient(tool, v, o) ==
    IF o.status = 0
    THEN [res |-> Running, need_fetch |-> NeedFetch(tool, v, o.stdout)]
    ELSE [res |-> Running, need_fetch |-> TRUE]

\* a mutant: a missing binary is fatal for every tool
check_version_strict(tool, v, o) ==
    IF o.status = SpawnErr
    THEN [res |-> Err("NeedManualDeploy", NoCode, tool), need_fetch |-> TRUE]
    ELSE IF o.status = 0
    THEN [res |-> Running, need_fetch |-> NeedFetch(tool, v, o.stdout)]
    ELSE [res |-> Err("ExecutionFailed", o.status, tool), need_fetch |-> TRUE]

\* the version check of upgrade: the `if let Ok(output) = ... else ...` block
check_version(tool, v, o) ==
    IF o.status = SpawnErr
    THEN IF tool = "hugo"
         THEN [res |-> Running, need_fetch |-> TRUE]
         ELSE [res |-> Err("NeedManualDeploy", NoCode, tool), need_fetch |-> TRUE]
    ELSE IF o.status = 0
    THEN [res |-> Running, need_fetch |-> NeedFetch(tool, v, o.stdout)]
    ELSE [res |-> Err("ExecutionFailed", o.status, tool), need_fetch |-> TRUE]

\* str::contains
Contains(s, p) ==
    \E i \in 1..(Len(s) - Len(p) + 1) : SubSeq(s, i, i + Len(p) - 1) = p

RECURSIVE Replace(_, _, _)
\* str::replace, for a pattern that is not empty: the matches are taken from
\* the left and do not overlap
Replace(s, from, to) ==
    IF s = <<>> THEN <<>>
    ELSE IF StartsWith(s, from)
    THEN to \o Replace(SubSeq(s, Len(from) + 1, Len(s)), from, to)
    ELSE <<Head(s)>> \o Replace(Tail(s), from, to)

Mask == <<"*", "*", "*", "*">>

\* the characters of an access token and of a base URL
SecretChars == {"a", "b"}
Secrets == UNION {[1..n -> SecretChars] : n \in 1..MaxSecret}
\* config.username: a name of its own, or one that is also the token
Usernames == {<<"u">>, <<"a">>}

\* format!("https://{}:{}@github.com/{}/{}.git", username, access_token, org, repo)
Url(username, access_token) ==
    <<"https://">> \o username \o <<":">> \o access_token
        \o <<"@github.com/", "o", "/", "r", ".git">>

\* a mutant: the clone command is logged as it is run
clone_log_plain(username, access_token) ==
    <<"git clone ">> \o Url(username, access_token)

\* "正在执行：git clone {}", url.replace(access_token, "****")
clone_log(username, access_token) ==
    <<"git clone ">> \o Replace(Url(username, access_token), access_token, Mask)

\* hugo.as_std().get_args()...join(" "): -b <base_url> -D -F
HugoArgs(base_url) == <<"-", "b", " ">> \o base_url \o <<" ", "-", "D", " ", "-", "F">>

\* "正在执行：hugo {}", args.replace(&base_url, "****")
hugo_log(base_url) == <<"hugo ">> \o Replace(HugoArgs(base_url), base_url, Mask)

\* a mutant: the fetch block is entered whatever need_fetch says
FetchGuardAlways(nf) == TRUE

\* `if need_fetch { ... }`
FetchGuard(nf) == nf

----------------------------------------------------------------------------
(* Archives *)

DotDot == <<"..">>
Root == <<"/">>

Entry(path, contents) == [path |-> path, contents |-> contents]

\* a downloaded body: size 0 is the empty body; valid says whether the
\* archive opens
EmptyBody == [size |-> 0, valid |-> FALSE, entries |-> <<>>]
CorruptBody == [size |-> 1, valid |-> FALSE, entries |-> <<>>]
Archive(es) == [size |-> 1, valid |-> TRUE, entries |-> es]

License == Entry(<<<<"LICENSE">>>>, <<1>>)

Bodies(tool) ==
    {EmptyBody, CorruptBody,
     Archive(<<License>>),
     Archive(<<License, Entry(<<<<tool>>>>, <<2>>)>>),
     Archive(<<Entry(<<<<"dir">>, <<tool, ".exe">>>>, <<2>>), License>>),
     Archive(<<Entry(<<<<tool>>>>, <<>>)>>),
     Archive(<<Entry(<<DotDot, <<tool>>>>, <<2>>)>>),
     Archive(<<Entry(<<<<tool>>, DotDot>>, <<2>>)>>)}

NoBody == EmptyBody
NoEntry == [name |-> <<>>, contents |-> <<>>]

\* Path::file_name: the last component, unless the path is empty or ends
\* in ".." or is the root
HasFileName(path) ==
    /\ Len(path) > 0
    /\ path[Len(path)] \notin {DotDot, Root}
FileName(path) == path[Len(path)]

RECURSIVE Escapes(_, _)
\* does the path leave its base directory at some component
Escapes(path, depth) ==
    IF path = <<>> THEN FALSE
    ELSE IF Head(path) = Root THEN TRUE
    ELSE IF Head(path) = DotDot
         THEN depth = 0 \/ Escapes(Tail(path), depth - 1)
    ELSE Escapes(Tail(path), depth + 1)

\* ZipFile::enclosed_name is Some
Enclosed(path) == ~Escapes(path, 0)

\* a mutant: the first entry with a file name is taken, whatever its name
unzip_from_any(es, i, e_name, windows) ==
    IF i > Len(es) THEN [res |-> Err("EntryNotFound", NoCode, e_name), entry |-> NoEntry]
    ELSE IF windows /\ ~Enclosed(es[i].path)
    THEN [res |-> Err("UnsafePath", NoCode, e_name), entry |-> NoEntry]
    ELSE IF ~HasFileName(es[i].path)
    THEN [res |-> Err("BadFileName", NoCode, e_name), entry |-> NoEntry]
    ELSE [res |-> Running,
          entry |-> [name |-> FileName(es[i].path), contents |-> es[i].contents]]

RECURSIVE unzip_from_empty(_, _, _, _)
\* a mutant: an archive without the entry gives an empty result, no error
unzip_from_empty(es, i, e_name, windows) ==
    IF i > Len(es) THEN [res |-> Running, entry |-> NoEntry]
    ELSE IF windows /\ ~Enclosed(es[i].path)
    THEN [res |-> Err("UnsafePath", NoCode, e_name), entry |-> NoEntry]
    ELSE IF ~HasFileName(es[i].path)
    THEN [res |-> Err("BadFileName", NoCode, e_name), entry |-> NoEntry]
    ELSE IF StartsWith(FileName(es[i].path), <<e_name>>)
    THEN [res |-> Running,
          entry |-> [name |-> FileName(es[i].path), contents |-> es[i].contents]]
    ELSE unzip_from_empty(es, i + 1, e_name, windows)

RECURSIVE unzip_from_head(_, _, _, _)
\* a mutant: the name returned is the first component of the path
unzip_from_head(es, i, e_name, windows) ==
    IF i > Len(es) THEN [res |-> Err("EntryNotFound", NoCode, e_name), entry |-> NoEntry]
    ELSE IF windows /\ ~Enclosed(es[i].path)
    THEN [res |-> Err("UnsafePath", NoCode, e_name), entry |-> NoEntry]
    ELSE IF ~HasFileName(es[i].path)
    THEN [res |-> Err("BadFileName", NoCode, e_name), entry |-> NoEntry]
    ELSE IF StartsWith(FileName(es[i].path), <<e_name>>)
    THEN [res |-> Running,
          entry |-> [name |-> Head(es[i].path), contents |-> es[i].contents]]
    ELSE unzip_from_head(es, i + 1, e_name, windows)

RECURSIVE unzip_from(_, _, _, _)
unzip_from(es, i, e_name, windows) ==
    IF i > Len(es) THEN [res |-> Err("EntryNotFound", NoCode, e_name), entry |-> NoEntry]
    ELSE IF windows /\ ~Enclosed(es[i].path)
    THEN [res |-> Err("UnsafePath", NoCode, e_name), entry |-> NoEntry]
    ELSE IF ~HasFileName(es[i].path)
    THEN [res |-> Err("BadFileName", NoCode, e_name), entry |-> NoEntry]
    ELSE IF StartsWith(FileName(es[i].path), <<e_name>>)
    THEN [res |-> Running,
          entry |-> [name |-> FileName(es[i].path), contents |-> es[i].contents]]
    ELSE unzip_from(es, i + 1, e_name, windows)

\* utils::unzip, the zip variant on windows and the tar.gz one elsewhere
unzip(z, e_name, windows) ==
    IF ~z.valid THEN [res |-> Err("CorruptArchive", NoCode, e_name), entry |-> NoEntry]
    ELSE unzip_from(z.entries, 1, e_name, windows)

\* the entries of the archives unzip is applied to on its own: another
\* file, the binary, the binary in a directory, the binary above the
\* archive root, a path that ends in ".."
EntryPool ==
    {License,
     Entry(<<<<"hugo">>>>, <<2>>),
     Entry(<<<<"dir">>, <<"hugo", ".exe">>>>, <<3>>),
     Entry(<<DotDot, <<"hugo">>>>, <<4>>),
     Entry(<<<<"dir">>, DotDot>>, <<5>>)}

UnzipArchives ==
    {CorruptBody}
    \cup {Archive(es) : es \in UNION {[1..n -> EntryPool] : n \in 0..MaxEntries}}

\* reqwest::get(url).await?.error_for_status()?.bytes().await?
GetOutcomes(tool) ==
    {[net |-> "transport", body |-> NoBody], [net |-> "status", body |-> NoBody]}
    \cup {[net |-> "ok", body |-> b] : b \in Bodies(tool)}

----------------------------------------------------------------------------
(* Entry points *)

\* the subcommands of bin/next.rs: Upgrade(Hugo), Deploy(Hugo),
\* Deploy(Caddy), Upgrade(Caddy) (as Sync: no pushover, `todo`), Alarm
NextOps ==
    {"next_upgrade_hugo", "next_deploy_hugo", "next_deploy_caddy",
     "next_upgrade_caddy", "next_alarm"}
\* the runs that go through Hugo::upgrade
HugoOps == {"hugo_deploy", "next_upgrade_hugo", "next_deploy_hugo"}

\* Op::is_deploy
is_deploy == op \in {"next_deploy_hugo", "next_deploy_caddy"}
\* Op::need_pushover
need_pushover == is_deploy \/ op = "next_alarm"

\* Hugo::upgrade(&config).await.hook_err(&pushover).await?: the positions
\* from which an error passes through the hook before main returns it
Hooked ==
    /\ op = "next_deploy_hugo"
    /\ pc \in {"m_upgrade", "h_probe", "h_checked", "h_get", "h_unzip", "h_write", "h_chmod"}

----------------------------------------------------------------------------
(* Effects *)

\* code: the status of the subprocess the step ran, NoCode for other steps
EffC(kind, st, code) == [kind |-> kind, stage |-> st, code |-> code]
Eff(kind, st) == EffC(kind, st, NoCode)
Did(kind) == \E i \in 1..Len(effects) : effects[i].kind = kind

Return(r) == /\ pc' = (IF Hooked /\ r # OkRes THEN "m_hook" ELSE "done")
             /\ result' = r
             /\ version' = NoVersion
             /\ output' = NoOutput
             /\ need_fetch' = need_fetch
             /\ bytes' = NoBody
             /\ extracted' = NoEntry

----------------------------------------------------------------------------
(* Init *)

PushoverVars == {"PUSHOVER_USER_KEY", "PUSHOVER_APP_TOKEN"}

EnvVars ==
    {"DEPLOY_GITHUB_ACCESS_TOKEN", "DEPLOY_GITHUB_USER_EMAIL",
     "DEPLOY_GITHUB_USER_NAME", "OSS_ACCESS_KEY_ID", "OSS_ACCESS_KEY_SECRET",
     "HUGO_DRAFT_BASE_URL", "OSS_DRAFT_BUCKET", "OSS_DRAFT_ENDPOINT",
     "OSS_PROD_BUCKET", "OSS_PROD_ENDPOINT"}

\* every variable set, or exactly one missing: a run returns at the first
\* absent variable it reads, so it never sees a second one
Environments == {{}} \cup {{v} : v \in EnvVars}
PushoverEnvironments == {{}} \cup {{v} : v \in PushoverVars}

\* utils::env_var
env_var(key) ==
    IF key \in absent THEN Err("ConfigurationMissing", NoCode, key) ELSE OkRes

RECURSIVE env_vars(_)
\* env_var(k1)?; env_var(k2)?; ... in that order
env_vars(keys) ==
    IF keys = <<>> THEN OkRes
    ELSE IF env_var(Head(keys)) # OkRes THEN env_var(Head(keys))
    ELSE env_vars(Tail(keys))

Files == 1..NumFiles
Dirs == 1..NumDirs
NoTasks == [k \in Files |-> "none"]
NoOss == [bucket |-> "-", endpoint |-> "-"]

\* the public tree a build of that stage produces
Built(s) == s
Branch(s) == IF s = "draft" THEN "draft" ELSE "main"

Init ==
    /\ op \in {"caddy_upgrade", "hugo_deploy", "unzip", "redact"} \cup NextOps
    \* hugo on macos runs the code it runs on linux, with another SUFFIX
    /\ platform \in (IF op = "caddy_upgrade" THEN {"windows", "linux", "macos"}
                     ELSE {"windows", "linux"})
    /\ entry_prefix \in (IF op = "unzip" THEN {"hugo", "caddy"}
                         ELSE IF op = "caddy_upgrade" THEN {"caddy"} ELSE {"hugo"})
    /\ sync_files \in (IF op = "hugo_deploy" THEN {1..n : n \in 0..NumFiles} ELSE {{}})
    /\ pc = "start"
    /\ result = Running
    /\ version = NoVersion
    /\ output = NoOutput
    /\ need_fetch = TRUE
    /\ bytes \in (IF op = "unzip" THEN UnzipArchives ELSE {NoBody})
    /\ extracted = NoEntry
    /\ svc = "running"
    /\ installed = {}
    /\ effects = <<>>
    /\ absent \in (IF op = "hugo_deploy" THEN Environments
                   ELSE IF op \in NextOps THEN PushoverEnvironments ELSE {{}})
    /\ stage = "none"
    /\ cwd = "ws"
    /\ public \in (IF op = "hugo_deploy" THEN {"absent", "stale"} ELSE {"absent"})
    /\ clone = "absent"
    /\ mirror \in (IF op = "hugo_deploy"
                   THEN [draft : {"old", Built("draft")},
                         main : {"old", Built("production")}]
                   ELSE {[draft |-> "old", main |-> "old"]})
    /\ mirror0 = mirror
    /\ oss = NoOss
    /\ tasks = NoTasks
    /\ dir_i = 0
    /\ store = {}
    /\ notes = <<>>
    /\ secret \in (IF op = "redact" THEN Secrets ELSE {<<>>})
    /\ log = <<>>

----------------------------------------------------------------------------
(* caddy upgrade *)

\* #[cfg(target_os = "macos")] upgrade
CaddyUnsupported ==
    /\ op = "caddy_upgrade" /\ pc = "start" /\ platform = "macos"
    /\ Return(Err("Unsupported", NoCode, "macos"))
    /\ UNCHANGED <<op, platform, entry_prefix, sync_files, svc, installed, effects, hugoWorld>>

\* get_config(config)?.version and current_exe()?
CaddyConfig ==
    /\ op = "caddy_upgrade" /\ pc = "start" /\ platform # "macos"
    /\ \/ /\ Return(Err("ConfigurationMissing", NoCode, "[caddy]"))
       \/ /\ Return(Err("Io", NoCode, "current_exe"))
       \/ /\ \E v \in Versions : version' = v
          /\ pc' = "c_probe"
          /\ UNCHANGED <<result, output, need_fetch, bytes, extracted>>
    /\ UNCHANGED <<op, platform, entry_prefix, sync_files, svc, installed, effects, hugoWorld>>

\* Command::new(&caddy).arg("version").output() and the version check
CaddyProbe ==
    /\ op = "caddy_upgrade" /\ pc = "c_probe"
    /\ \E o \in ProbeOutcomes :
        LET c == check_version("caddy", version, o) IN
        /\ effects' = Append(effects, EffC("probe", "none", o.status))
        /\ IF c.res # Running THEN Return(c.res)
           ELSE /\ output' = o
                /\ need_fetch' = c.need_fetch
                /\ pc' = "c_checked"
                /\ UNCHANGED <<result, version, bytes, extracted>>
    /\ UNCHANGED <<op, platform, entry_prefix, sync_files, svc, installed, hugoWorld>>

\* `if need_fetch { ... }` and the Ok(()) after it
CaddyNeedFetch ==
    /\ op = "caddy_upgrade" /\ pc = "c_checked"
    /\ IF FetchGuard(need_fetch)
       THEN /\ pc' = IF platform = "windows" THEN "c_open" ELSE "c_get"
            /\ output' = NoOutput
            /\ UNCHANGED <<result, version, need_fetch, bytes, extracted>>
       ELSE Return(OkRes)
    /\ UNCHANGED <<op, platform, entry_prefix, sync_files, svc, installed, effects, hugoWorld>>

\* #[cfg(windows)] ServiceManager::local_computer(..)?.open_service("caddy", ..)?
CaddyOpenService ==
    /\ op = "caddy_upgrade" /\ pc = "c_open"
    /\ \/ /\ Return(Err("Service", NoCode, "open"))
          /\ effects' = Append(effects, Eff("open_failed", "none"))
       \/ /\ pc' = "c_get"
          /\ effects' = Append(effects, Eff("open", "none"))
          /\ UNCHANGED <<result, version, output, need_fetch, bytes, extracted>>
    /\ UNCHANGED <<op, platform, entry_prefix, sync_files, svc, installed, hugoWorld>>

\* reqwest::get(url) ... and the bytes.is_empty() test
CaddyGet ==
    /\ op = "caddy_upgrade" /\ pc = "c_get"
    /\ \E g \in GetOutcomes("caddy") :
        /\ effects' = Append(effects, Eff(IF g.net = "ok" THEN "get" ELSE "get_failed", "none"))
        /\ IF g.net # "ok" THEN Return(Err("Network", NoCode, g.net))
           ELSE IF g.body.size = 0 THEN Return(Err("EmptyDownload", NoCode, "caddy"))
           ELSE /\ bytes' = g.body
                /\ pc' = "c_unzip"
                /\ UNCHANGED <<result, version, output, need_fetch, extracted>>
    /\ UNCHANGED <<op, platform, entry_prefix, sync_files, svc, installed, hugoWorld>>

\* let (name, contents) = unzip(&bytes, "caddy")?
CaddyUnzip ==
    /\ op = "caddy_upgrade" /\ pc = "c_unzip"
    /\ LET u == unzip(bytes, entry_prefix, platform = "windows") IN
        IF u.res # Running THEN Return(u.res)
        ELSE /\ extracted' = u.entry
             /\ pc' = IF platform = "windows" THEN "c_stop" ELSE "c_write"
             /\ UNCHANGED <<result, version, output, need_fetch, bytes>>
    /\ UNCHANGED <<op, platform, entry_prefix, sync_files, svc, installed, effects, hugoWorld>>

\* where upgrade goes once the service has been stopped
CaddyAfterStop == IF platform = "windows" THEN "c_write" ELSE "c_start"

\* #[cfg(windows)] service.stop()?
\* #[cfg(not(windows))] spawn_command(Command::new(&caddy).arg("stop"), "caddy stop")
CaddyStop ==
    /\ op = "caddy_upgrade" /\ pc = "c_stop"
    /\ \E o \in SpawnOutcomes :
        LET r == IF platform = "windows"
                 THEN IF o = 0 THEN OkRes ELSE Err("Service", NoCode, "stop")
                 ELSE spawn_command(o, "caddy stop") IN
        IF r # OkRes
        THEN /\ Return(r)
             /\ effects' = Append(effects, Eff("stop_failed", "none"))
             /\ UNCHANGED svc
        ELSE /\ svc' = "stopped"
             /\ effects' = Append(effects, Eff("stop", "none"))
             /\ pc' = CaddyAfterStop
             /\ UNCHANGED <<result, version, output, need_fetch, bytes, extracted>>
    /\ UNCHANGED <<op, platform, entry_prefix, sync_files, installed, hugoWorld>>

File(name, contents, exec) == [name |-> name, contents |-> contents, exec |-> exec]
\* the files once `name` has been created or truncated and given `contents`
Written(files, name, contents) ==
    {f \in files : f.name # name}
    \cup {File(name, contents,
               \E f \in files : f.name = name /\ f.exec)}
Chmodded(files, name) ==
    {IF f.name = name THEN File(f.name, f.contents, TRUE) ELSE f : f \in files}

\* where upgrade goes once the file has been written
CaddyAfterWrite == IF platform = "windows" THEN "c_start" ELSE "c_chmod"

\* fs::write(&path, contents).await?
CaddyWrite ==
    /\ op = "caddy_upgrade" /\ pc = "c_write"
    /\ \/ /\ installed' = Written(installed, extracted.name, extracted.contents)
          /\ effects' = Append(effects, Eff("write", "none"))
          /\ pc' = CaddyAfterWrite
          /\ UNCHANGED <<result, version, output, need_fetch, bytes, extracted>>
       \/ /\ \E touched \in BOOLEAN :
                installed' = IF touched THEN Written(installed, extracted.name, <<>>)
                             ELSE installed
          /\ effects' = Append(effects, Eff("write_failed", "none"))
          /\ Return(Err("Io", NoCode, "write"))
    /\ UNCHANGED <<op, platform, entry_prefix, sync_files, svc, hugoWorld>>

\* #[cfg(not(windows))] chmod_exec(path).await?
CaddyChmod ==
    /\ op = "caddy_upgrade" /\ pc = "c_chmod"
    /\ \/ /\ installed' = Chmodded(installed, extracted.name)
          /\ effects' = Append(effects, Eff("chmod", "none"))
          /\ pc' = "c_stop"
          /\ UNCHANGED <<result, version, output, need_fetch, bytes, extracted>>
       \/ /\ effects' = Append(effects, Eff("chmod_failed", "none"))
          /\ Return(Err("Io", NoCode, "chmod"))
          /\ UNCHANGED installed
    /\ UNCHANGED <<op, platform, entry_prefix, sync_files, svc, hugoWorld>>

\* service.start(&[])? / spawn_command(Command::new(&caddy).arg("start"), "caddy start")
CaddyStart ==
    /\ op = "caddy_upgrade" /\ pc = "c_start"
    /\ effects' = Append(effects, Eff("start", "none"))
    /\ \E o \in SpawnOutcomes :
        LET r == IF platform = "windows"
                 THEN IF o = 0 THEN OkRes ELSE Err("Service", NoCode, "start")
                 ELSE spawn_command(o, "caddy start") IN
        /\ svc' = IF r = OkRes THEN "running" ELSE svc
        /\ Return(r)
    /\ UNCHANGED <<op, platform, entry_prefix, sync_files, installed, hugoWorld>>

CaddyUpgrade ==
    \/ CaddyUnsupported \/ CaddyConfig \/ CaddyProbe \/ CaddyNeedFetch
    \/ CaddyOpenService
    \/ CaddyGet \/ CaddyUnzip \/ CaddyStop \/ CaddyWrite \/ CaddyChmod
    \/ CaddyStart

----------------------------------------------------------------------------
(* hugo upgrade, as called from deploy *)

\* what no step changes
inputs == <<op, platform, entry_prefix, sync_files, svc, absent, mirror0, secret>>
frame == <<inputs, notes, log>>

\* let hugo = exe.with_file_name("hugo"): the name of the path in Self(hugo)
Yielded == <<"hugo">>

\* Ok((Self(hugo), config)): back in deploy, the locals of upgrade are gone
HugoReady ==
    /\ pc' = (IF op = "hugo_deploy" THEN "d_config"
              ELSE IF op = "next_deploy_hugo" THEN "m_summary" ELSE "done")
    /\ version' = NoVersion
    /\ output' = NoOutput
    /\ need_fetch' = need_fetch
    /\ bytes' = NoBody
    /\ extracted' = NoEntry
    \* Op::Upgrade(Target::Hugo) => Hugo::upgrade(&config).await.map(|_| ())
    /\ result' = (IF op = "next_upgrade_hugo" THEN OkRes ELSE result)

\* config.hugo.as_ref().ok_or(..)? and current_exe()?
HugoConfig ==
    /\ \/ op = "hugo_deploy" /\ pc = "start"
       \/ op \in NextOps /\ pc = "m_upgrade"
    /\ \/ Return(Err("ConfigurationMissing", NoCode, "[hugo]"))
       \/ Return(Err("Io", NoCode, "current_exe"))
       \/ /\ \E v \in Versions : version' = v
          /\ pc' = "h_probe"
          /\ UNCHANGED <<result, output, need_fetch, bytes, extracted>>
    /\ UNCHANGED <<frame, installed, effects, stage, fsWorld, ossWorld>>

\* Command::new(&hugo).arg("version").output() and the version check
HugoProbe ==
    /\ op \in HugoOps /\ pc = "h_probe"
    /\ \E o \in ProbeOutcomes :
        LET c == check_version("hugo", version, o) IN
        /\ effects' = Append(effects, EffC("probe", "none", o.status))
        /\ IF c.res # Running THEN Return(c.res)
           ELSE /\ output' = o
                /\ need_fetch' = c.need_fetch
                /\ pc' = "h_checked"
                /\ UNCHANGED <<result, version, bytes, extracted>>
    /\ UNCHANGED <<frame, installed, stage, fsWorld, ossWorld>>

\* `if need_fetch { ... }` and the Ok((Self(hugo), config)) after it
HugoNeedFetch ==
    /\ op \in HugoOps /\ pc = "h_checked"
    /\ IF FetchGuard(need_fetch)
       THEN /\ pc' = "h_get"
            /\ output' = NoOutput
            /\ UNCHANGED <<result, version, need_fetch, bytes, extracted>>
       ELSE HugoReady
    /\ UNCHANGED <<frame, installed, effects, stage, fsWorld, ossWorld>>

\* a mutant: a GET that failed is issued once more
HugoGetRetry ==
    /\ op \in HugoOps /\ pc = "h_get"
    /\ \E g \in GetOutcomes("hugo") :
        /\ effects' = Append(effects, Eff(IF g.net = "ok" THEN "get" ELSE "get_failed", "none"))
        /\ IF g.net # "ok"
           THEN IF Did("get_failed") THEN Return(Err("Network", NoCode, g.net))
                ELSE UNCHANGED <<pc, result, locals>>
           ELSE IF g.body.size = 0 THEN Return(Err("EmptyDownload", NoCode, "hugo"))
           ELSE /\ bytes' = g.body
                /\ pc' = "h_unzip"
                /\ UNCHANGED <<result, version, output, need_fetch, extracted>>
    /\ UNCHANGED <<frame, installed, stage, fsWorld, ossWorld>>

\* reqwest::get(url) ... and the bytes.is_empty() test
HugoGet ==
    /\ op \in HugoOps /\ pc = "h_get"
    /\ \E g \in GetOutcomes("hugo") :
        /\ effects' = Append(effects, Eff(IF g.net = "ok" THEN "get" ELSE "get_failed", "none"))
        /\ IF g.net # "ok" THEN Return(Err("Network", NoCode, g.net))
           ELSE IF g.body.size = 0 THEN Return(Err("EmptyDownload", NoCode, "hugo"))
           ELSE /\ bytes' = g.body
                /\ pc' = "h_unzip"
                /\ UNCHANGED <<result, version, output, need_fetch, extracted>>
    /\ UNCHANGED <<frame, installed, stage, fsWorld, ossWorld>>

\* let (name, contents) = unzip(&bytes, "hugo")?
HugoUnzip ==
    /\ op \in HugoOps /\ pc = "h_unzip"
    /\ LET u == unzip(bytes, entry_prefix, platform = "windows") IN
        IF u.res # Running THEN Return(u.res)
        ELSE /\ extracted' = u.entry
             /\ pc' = "h_write"
             /\ UNCHANGED <<result, version, output, need_fetch, bytes>>
    /\ UNCHANGED <<frame, installed, effects, stage, fsWorld, ossWorld>>

\* fs::write(&path, contents).await?
HugoWrite ==
    /\ op \in HugoOps /\ pc = "h_write"
    /\ \/ /\ installed' = Written(installed, extracted.name, extracted.contents)
          /\ effects' = Append(effects, Eff("write", "none"))
          /\ IF platform = "windows" THEN HugoReady
             ELSE /\ pc' = "h_chmod"
                  /\ UNCHANGED <<result, locals>>
       \/ /\ \E touched \in BOOLEAN :
                installed' = IF touched THEN Written(installed, extracted.name, <<>>)
                             ELSE installed
          /\ effects' = Append(effects, Eff("write_failed", "none"))
          /\ Return(Err("Io", NoCode, "write"))
    /\ UNCHANGED <<frame, stage, fsWorld, ossWorld>>

\* #[cfg(not(windows))] chmod_exec(path).await?
HugoChmod ==
    /\ op \in HugoOps /\ pc = "h_chmod"
    /\ \/ /\ installed' = Chmodded(installed, extracted.name)
          /\ effects' = Append(effects, Eff("chmod", "none"))
          /\ HugoReady
       \/ /\ effects' = Append(effects, Eff("chmod_failed", "none"))
          /\ Return(Err("Io", NoCode, "chmod"))
          /\ UNCHANGED installed
    /\ UNCHANGED <<frame, stage, fsWorld, ossWorld>>

HugoUpgrade ==
    \/ HugoConfig \/ HugoProbe \/ HugoNeedFetch \/ HugoGet \/ HugoUnzip \/ HugoWrite \/ HugoChmod

----------------------------------------------------------------------------
(* hugo deploy: deploy, deploy_step *)

Goto(l) == pc' = l /\ UNCHANGED <<result, locals, stage>>

\* a mutant: a failing draft stage does not stop deploy
StageFailDraftIgnored(r) ==
    IF stage = "draft"
    THEN /\ pc' = "s_clean"
         /\ stage' = "production"
         /\ UNCHANGED <<result, locals>>
    ELSE Return(r) /\ UNCHANGED stage

\* the `?` of a step inside deploy_step, and of deploy_step(..).await? in
\* deploy: the error is what deploy returns
StageFail(r) == Return(r) /\ UNCHANGED stage

\* the end of deploy_step: deploy goes on with the production stage, or
\* returns Ok(())
StageDone ==
    IF stage = "draft"
    THEN /\ pc' = "s_clean"
         /\ stage' = "production"
         /\ UNCHANGED <<result, locals>>
    ELSE Return(OkRes) /\ UNCHANGED stage

\* config.deploy.clone().ok_or(..)? and the five env_var(..)? of deploy
DeployEnv ==
    /\ op = "hugo_deploy" /\ pc = "d_config"
    /\ \/ Return(Err("ConfigurationMissing", NoCode, "[hugo.deploy]")) /\ UNCHANGED stage
       \/ LET r == env_vars(<<"DEPLOY_GITHUB_ACCESS_TOKEN", "DEPLOY_GITHUB_USER_EMAIL",
                              "DEPLOY_GITHUB_USER_NAME", "OSS_ACCESS_KEY_ID",
                              "OSS_ACCESS_KEY_SECRET">>) IN
          IF r # OkRes THEN Return(r) /\ UNCHANGED stage
          ELSE /\ pc' = "s_clean"
               /\ stage' = "draft"
               /\ UNCHANGED <<result, locals>>
    /\ UNCHANGED <<frame, installed, effects, fsWorld, ossWorld>>

\* where the caller of remove_public goes on
AfterRemovePublic ==
    IF pc = "g_rmpublic" THEN "g_copy"
    ELSE IF stage = "draft" THEN "s_baseurl" ELSE "s_build"

\* a mutant: remove_public removes public of the workspace only, and leaves
\* the one of the clone as it is
RemovePublicWorkspaceOnly ==
    /\ op = "hugo_deploy" /\ pc \in {"s_clean", "g_rmpublic"}
    /\ effects' = Append(effects, Eff(IF pc = "s_clean" THEN "clean" ELSE "clean_clone", stage))
    /\ IF cwd = "ws"
       THEN /\ \/ public' = "absent" /\ Goto(AfterRemovePublic)
               \/ public # "absent" /\ StageFail(Err("Io", NoCode, "remove_public"))
                                    /\ UNCHANGED public
            /\ UNCHANGED clone
       ELSE /\ Goto(AfterRemovePublic)
            /\ UNCHANGED <<public, clone>>
    /\ UNCHANGED <<frame, installed, cwd, mirror, ossWorld>>

\* remove_public: ./public of the current directory, in deploy_step and in
\* deploy_github
RemovePublic ==
    /\ op = "hugo_deploy" /\ pc \in {"s_clean", "g_rmpublic"}
    /\ effects' = Append(effects, Eff(IF pc = "s_clean" THEN "clean" ELSE "clean_clone", stage))
    /\ IF cwd = "ws"
       THEN /\ \/ public' = "absent" /\ Goto(AfterRemovePublic)
               \/ public # "absent" /\ StageFail(Err("Io", NoCode, "remove_public"))
                                    /\ UNCHANGED public
            /\ UNCHANGED clone
       ELSE /\ \/ clone' = "empty" /\ Goto(AfterRemovePublic)
               \/ clone # "empty" /\ StageFail(Err("Io", NoCode, "remove_public"))
                                  /\ UNCHANGED clone
            /\ UNCHANGED public
    /\ UNCHANGED <<frame, installed, cwd, mirror, ossWorld>>

\* let base_url = env_var("HUGO_DRAFT_BASE_URL")?
StepBaseUrl ==
    /\ op = "hugo_deploy" /\ pc = "s_baseurl"
    /\ IF env_var("HUGO_DRAFT_BASE_URL") # OkRes
       THEN StageFail(env_var("HUGO_DRAFT_BASE_URL"))
       ELSE Goto("s_build")
    /\ UNCHANGED <<frame, installed, effects, fsWorld, ossWorld>>

\* a mutant: the object store is published before the git mirror
AfterBuildStoreFirst == "o_cd"

\* after the build deploy_step calls deploy_github, then deploy_oss
AfterBuild == "g_clone"

\* spawn_command(hugo, "hugo").await?
StepBuild ==
    /\ op = "hugo_deploy" /\ pc = "s_build"
    /\ \E o \in SpawnOutcomes :
        LET r == spawn_command(o, "hugo") IN
        /\ effects' = Append(effects, EffC("build", stage, o))
        /\ IF r = OkRes THEN public' = Built(stage) /\ Goto(AfterBuild)
           ELSE StageFail(r) /\ UNCHANGED public
    /\ UNCHANGED <<frame, installed, cwd, clone, mirror, ossWorld>>

----------------------------------------------------------------------------
(* deploy_github *)

\* one spawn_command(Command::new("git")..., "git").await? of deploy_github
\* that changes nothing the model tracks: git config user.email,
\* git config user.name, git add .
GitNext ==
    IF pc = "g_email" THEN "g_name"
    ELSE IF pc = "g_name" THEN (IF stage = "draft" THEN "g_checkout" ELSE "g_rmpublic")
    ELSE "g_commit"

GitPlain ==
    /\ op = "hugo_deploy" /\ pc \in {"g_email", "g_name", "g_add"}
    /\ \E o \in SpawnOutcomes :
        LET r == spawn_command(o, "git") IN
        IF r = OkRes THEN Goto(GitNext) ELSE StageFail(r)
    /\ UNCHANGED <<frame, installed, effects, fsWorld, ossWorld>>

\* spawn_command(Command::new("git").arg("clone").arg(url), "git").await?
GitClone ==
    /\ op = "hugo_deploy" /\ pc = "g_clone"
    /\ \E o \in SpawnOutcomes :
        LET r == spawn_command(o, "git") IN
        /\ effects' = Append(effects, EffC("clone", stage, o))
        /\ IF r = OkRes THEN clone' = mirror.main /\ Goto("g_cd")
           ELSE StageFail(r) /\ UNCHANGED clone
    /\ UNCHANGED <<frame, installed, cwd, public, mirror, ossWorld>>

\* set_current_dir(repo)?
GitCd ==
    /\ op = "hugo_deploy" /\ pc = "g_cd"
    /\ \/ cwd' = "repo" /\ Goto("g_email")
       \/ StageFail(Err("Io", NoCode, "set_current_dir")) /\ UNCHANGED cwd
    /\ UNCHANGED <<frame, installed, effects, public, clone, mirror, ossWorld>>

\* if for_draft { spawn_command(git checkout draft) }
GitCheckout ==
    /\ op = "hugo_deploy" /\ pc = "g_checkout"
    /\ \E o \in SpawnOutcomes :
        LET r == spawn_command(o, "git") IN
        IF r = OkRes THEN clone' = mirror.draft /\ Goto("g_rmpublic")
        ELSE StageFail(r) /\ UNCHANGED clone
    /\ UNCHANGED <<frame, installed, effects, cwd, public, mirror, ossWorld>>

\* fs_extra::dir::copy of the built tree to ./public with the default
\* options: into no public directory it gives a copy of the built tree; into
\* one that exists it adds to what is there, overwriting nothing
dir_copy(tree, built) == IF tree = "empty" THEN built ELSE "mixed"

\* spawn_blocking(move || dir::copy("../public", "", ..)).await??
GitCopy ==
    /\ op = "hugo_deploy" /\ pc = "g_copy"
    /\ \/ clone' = dir_copy(clone, public) /\ Goto("g_add")
       \/ StageFail(Err("Io", NoCode, "dir::copy")) /\ UNCHANGED clone
    /\ UNCHANGED <<frame, installed, effects, cwd, public, mirror, ossWorld>>

\* the working tree of the clone differs from the branch it is on
TreeChanged == clone # mirror[Branch(stage)]

\* a mutant: a git commit that exits non-zero is an error of the stage
GitCommitStrict ==
    /\ op = "hugo_deploy" /\ pc = "g_commit"
    /\ \E o \in SpawnOutcomes :
        /\ (o = 0) => TreeChanged
        /\ IF o = 0
           THEN /\ Goto("g_push")
                /\ effects' = Append(effects, EffC("commit", stage, o))
           ELSE /\ StageFail(spawn_command(o, "git"))
                /\ effects' = Append(effects, EffC("commit_failed", stage, o))
    /\ UNCHANGED <<frame, installed, fsWorld, ossWorld>>

\* Command::new("git").arg("commit")...spawn()?.wait().await?.success():
\* with nothing staged git commit exits non-zero; with changes staged it
\* commits, or fails for another reason
GitCommit ==
    /\ op = "hugo_deploy" /\ pc = "g_commit"
    /\ \E o \in SpawnOutcomes :
        /\ (o = 0) => TreeChanged
        /\ IF o = SpawnErr
           THEN /\ StageFail(Err("Io", NoCode, "git commit"))
                /\ effects' = Append(effects, EffC("commit_failed", stage, o))
           ELSE IF o = 0
           THEN /\ Goto("g_push")
                /\ effects' = Append(effects, EffC("commit", stage, o))
           ELSE /\ Goto("g_cdback")
                /\ effects' = Append(effects, EffC("commit_skipped", stage, o))
    /\ UNCHANGED <<frame, installed, fsWorld, ossWorld>>

\* spawn_command(Command::new("git").arg("push"), "git").await?
GitPush ==
    /\ op = "hugo_deploy" /\ pc = "g_push"
    /\ \E o \in SpawnOutcomes :
        LET r == spawn_command(o, "git") IN
        /\ effects' = Append(effects, EffC("push", stage, o))
        /\ IF r = OkRes
           THEN mirror' = [mirror EXCEPT ![Branch(stage)] = clone] /\ Goto("g_cdback")
           ELSE StageFail(r) /\ UNCHANGED mirror
    /\ UNCHANGED <<frame, installed, cwd, public, clone, ossWorld>>

\* a mutant: deploy_github does not go back to the directory it started in
GitCdBackSkipped ==
    /\ op = "hugo_deploy" /\ pc = "g_cdback"
    /\ Goto("g_rmclone")
    /\ UNCHANGED <<frame, installed, effects, cwd, public, clone, mirror, ossWorld>>

\* set_current_dir("..")?
GitCdBack ==
    /\ op = "hugo_deploy" /\ pc = "g_cdback"
    /\ \/ cwd' = "ws" /\ Goto("g_rmclone")
       \/ StageFail(Err("Io", NoCode, "set_current_dir")) /\ UNCHANGED cwd
    /\ UNCHANGED <<frame, installed, effects, public, clone, mirror, ossWorld>>

\* Ok(remove_dir_all(repo).await?)
GitRemoveClone ==
    /\ op = "hugo_deploy" /\ pc = "g_rmclone"
    /\ \/ clone' = "absent" /\ Goto("o_cd")
       \/ StageFail(Err("Io", NoCode, "remove_dir_all")) /\ UNCHANGED clone
    /\ UNCHANGED <<frame, installed, effects, cwd, public, mirror, ossWorld>>

deploy_github ==
    \/ GitClone \/ GitCd \/ GitPlain \/ GitCheckout \/ GitCopy \/ GitCommit
    \/ GitPush \/ GitCdBack \/ GitRemoveClone

----------------------------------------------------------------------------
(* deploy_oss *)

\* a mutant: the production bucket in both stages
BucketVarAlwaysProd == "OSS_PROD_BUCKET"

BucketVar == IF stage = "draft" THEN "OSS_DRAFT_BUCKET" ELSE "OSS_PROD_BUCKET"
EndpointVar == IF stage = "draft" THEN "OSS_DRAFT_ENDPOINT" ELSE "OSS_PROD_ENDPOINT"

FileObject(k) ==
    [bucket |-> oss.bucket, endpoint |-> oss.endpoint, key |-> "file", i |-> k, f |-> "-"]
DirFiles == {"a", "b"}
DirObject(d, f) ==
    [bucket |-> oss.bucket, endpoint |-> oss.endpoint, key |-> "dir", i |-> d, f |-> f]

\* set_current_dir("public")?
OssCd ==
    /\ op = "hugo_deploy" /\ pc = "o_cd"
    /\ \/ public # "absent" /\ cwd' = "public" /\ Goto("o_init")
       \/ StageFail(Err("Io", NoCode, "set_current_dir")) /\ UNCHANGED cwd
    /\ UNCHANGED <<frame, installed, effects, public, clone, mirror, ossWorld>>

\* the two env_var(..)? of the stage and Operator::new(oss)?
OssInit ==
    /\ op = "hugo_deploy" /\ pc = "o_init"
    /\ LET r == env_vars(<<BucketVar, EndpointVar>>) IN
        IF r # OkRes THEN StageFail(r) /\ UNCHANGED oss
        ELSE \/ /\ oss' = [bucket |-> BucketVar, endpoint |-> EndpointVar]
                /\ Goto("o_push")
             \/ StageFail(Err("Operator", NoCode, "new")) /\ UNCHANGED oss
    /\ UNCHANGED <<frame, installed, effects, fsWorld, tasks, dir_i, store>>

\* files.push_str_seq(&sync.files).await?: one upload task per file
OssPushFiles ==
    /\ op = "hugo_deploy" /\ pc = "o_push"
    /\ \/ /\ tasks' = [k \in Files |-> IF k \in sync_files THEN "pending" ELSE "none"]
          /\ Goto("o_join")
       \/ StageFail(Err("Io", NoCode, "push_str_seq")) /\ UNCHANGED tasks
    /\ UNCHANGED <<frame, installed, effects, fsWorld, oss, dir_i, store>>

\* one upload task runs to its end, in any order with its siblings
UploadTask(k) ==
    /\ op = "hugo_deploy" /\ pc = "o_join" /\ tasks[k] = "pending"
    /\ \/ /\ tasks' = [tasks EXCEPT ![k] = "ok"]
          /\ store' = store \cup {FileObject(k)}
       \/ /\ tasks' = [tasks EXCEPT ![k] = "failed"]
          /\ UNCHANGED store
    /\ UNCHANGED <<frame, installed, effects, fsWorld, oss, dir_i, pc, result,
                   locals, stage>>

\* a mutant: join returns at the first failure, without its siblings
OssJoinFailFast ==
    /\ op = "hugo_deploy" /\ pc = "o_join"
    /\ \/ \A k \in Files : tasks[k] # "pending"
       \/ \E k \in Files : tasks[k] = "failed"
    /\ IF \E k \in Files : tasks[k] = "failed"
       THEN /\ \E k \in Files :
                 tasks[k] = "failed" /\ StageFail(Err("Upload", k, "join"))
            /\ UNCHANGED dir_i
       ELSE /\ dir_i' = 1
            /\ Goto(IF NumDirs > 0 THEN "o_sync" ELSE "o_cdback")
    /\ UNCHANGED <<frame, installed, effects, fsWorld, oss, tasks, store>>

\* a mutant: join returns success whatever its tasks did
OssJoinLenient ==
    /\ op = "hugo_deploy" /\ pc = "o_join"
    /\ \A k \in Files : tasks[k] # "pending"
    /\ dir_i' = 1
    /\ Goto(IF NumDirs > 0 THEN "o_sync" ELSE "o_cdback")
    /\ UNCHANGED <<frame, installed, effects, fsWorld, oss, tasks, store>>

\* files.join().await?: returns once no task is pending; the code of the
\* error is the index of a task that failed
OssJoin ==
    /\ op = "hugo_deploy" /\ pc = "o_join"
    /\ \A k \in Files : tasks[k] # "pending"
    /\ IF \E k \in Files : tasks[k] = "failed"
       THEN /\ \E k \in Files :
                 tasks[k] = "failed" /\ StageFail(Err("Upload", k, "join"))
            /\ UNCHANGED dir_i
       ELSE /\ dir_i' = 1
            /\ Goto(IF NumDirs > 0 THEN "o_sync" ELSE "o_cdback")
    /\ UNCHANGED <<frame, installed, effects, fsWorld, oss, tasks, store>>

\* one turn of `for dir in &sync.dirs { sync_dir(&op, dir).await?; }`
OssSyncDir ==
    /\ op = "hugo_deploy" /\ pc = "o_sync"
    /\ \/ /\ store' = store \cup {DirObject(dir_i, f) : f \in DirFiles}
          /\ dir_i' = dir_i + 1
          /\ Goto(IF dir_i < NumDirs THEN "o_sync" ELSE "o_cdback")
       \/ /\ \E done \in (SUBSET DirFiles) \ {DirFiles} :
                store' = store \cup {DirObject(dir_i, f) : f \in done}
          /\ StageFail(Err("Upload", NoCode, "sync_dir"))
          /\ UNCHANGED dir_i
    /\ UNCHANGED <<frame, installed, effects, fsWorld, oss, tasks>>

\* Ok(set_current_dir("..")?), the end of deploy_step
OssCdBack ==
    /\ op = "hugo_deploy" /\ pc = "o_cdback"
    /\ \/ /\ cwd' = "ws"
          /\ effects' = Append(effects, Eff("done", stage))
          /\ StageDone
       \/ /\ StageFail(Err("Io", NoCode, "set_current_dir"))
          /\ UNCHANGED <<cwd, effects>>
    /\ UNCHANGED <<frame, installed, public, clone, mirror, ossWorld>>

deploy_oss ==
    \/ OssCd \/ OssInit \/ OssPushFiles \/ (\E k \in Files : UploadTask(k))
    \/ OssJoin \/ OssSyncDir \/ OssCdBack

deploy_step == RemovePublic \/ StepBaseUrl \/ StepBuild \/ deploy_github \/ deploy_oss

deploy == HugoUpgrade \/ DeployEnv \/ deploy_step

----------------------------------------------------------------------------
(* bin/next.rs: main *)

\* let pushover = cli.get_pushover()?
MainPushover ==
    /\ op \in NextOps /\ pc = "start"
    /\ IF need_pushover /\ absent # {}
       THEN \E key \in absent : Return(Err("ConfigurationMissing", NoCode, key))
       ELSE /\ pc' = (IF is_deploy THEN "m_start" ELSE "m_config")
            /\ UNCHANGED <<result, locals>>
    /\ UNCHANGED <<frame, installed, effects, stage, fsWorld, ossWorld>>

\* Pushover::send_if_some, for Pushover::Some: ok says whether the request
\* went through and came back without errors
send_if_some(ok, what) == IF ok THEN OkRes ELSE Err("Notify", NoCode, what)

\* a message handed to send_if_some: text is what the message was
\* formatted from, sent says whether the request went through
Note(sound, text, sent) == [sound |-> sound, text |-> text, sent |-> sent]
\* format!("开始执行GitOps：{:?}", op)
StartText == [kind |-> "Start", code |-> NoCode, what |-> op]
\* format!("GitOps执行成功！\r\n峰值内存：{} MB", mb)
SuccessText == [kind |-> "Success", code |-> NoCode, what |-> "mb"]

\* if op.is_deploy() { pushover.send_if_some(.., BIKE).await?; }
MainStartNote ==
    /\ op \in NextOps /\ pc = "m_start"
    /\ \E ok \in BOOLEAN :
        /\ effects' = Append(effects, Eff(IF ok THEN "note_start" ELSE "note_start_failed", "none"))
        /\ notes' = Append(notes, Note("BIKE", StartText, ok))
        /\ IF send_if_some(ok, "start") = OkRes
           THEN pc' = "m_config" /\ UNCHANGED <<result, locals>>
           ELSE Return(send_if_some(ok, "start"))
    /\ UNCHANGED <<inputs, log, installed, stage, fsWorld, ossWorld>>

\* cli.resolve_config().await.hook_err_if(op.is_deploy(), &pushover).await?
\* and the arms of `match op` that call nothing
MainConfig ==
    /\ op \in NextOps /\ pc = "m_config"
    /\ \/ /\ result' = Err("Io", NoCode, "resolve_config")
          /\ pc' = (IF is_deploy THEN "m_hook" ELSE "done")
          /\ UNCHANGED locals
       \/ IF op \in HugoOps THEN pc' = "m_upgrade" /\ UNCHANGED <<result, locals>>
          ELSE IF op = "next_deploy_caddy"
          THEN pc' = "m_summary" /\ UNCHANGED <<result, locals>>
          ELSE Return(Err("Todo", NoCode, "todo"))
    /\ UNCHANGED <<frame, installed, effects, stage, fsWorld, ossWorld>>

\* a mutant: a failure note that cannot be sent becomes the error of main
MainHookMasks ==
    /\ op \in NextOps /\ pc = "m_hook"
    /\ \E ok \in BOOLEAN :
        /\ effects' = Append(effects, Eff(IF ok THEN "note_failure" ELSE "note_failure_failed", "none"))
        /\ notes' = Append(notes, Note("FALLING", result, ok))
        /\ result' = (IF ok THEN result ELSE send_if_some(ok, "failure"))
    /\ pc' = "done"
    /\ UNCHANGED locals
    /\ UNCHANGED <<inputs, log, installed, stage, fsWorld, ossWorld>>

\* a mutant: main goes on after the hook
MainHookContinues ==
    /\ op \in NextOps /\ pc = "m_hook"
    /\ \E ok \in BOOLEAN :
        /\ effects' = Append(effects, Eff(IF ok THEN "note_failure" ELSE "note_failure_failed", "none"))
        /\ notes' = Append(notes, Note("FALLING", result, ok))
    /\ pc' = "m_summary"
    /\ UNCHANGED <<result, locals>>
    /\ UNCHANGED <<inputs, log, installed, stage, fsWorld, ossWorld>>

\* HookErrIf::run_hook: send_if_some(.., FALLING).await.ok(), then the `?`
MainHook ==
    /\ op \in NextOps /\ pc = "m_hook"
    /\ \E ok \in BOOLEAN :
        /\ effects' = Append(effects, Eff(IF ok THEN "note_failure" ELSE "note_failure_failed", "none"))
        /\ notes' = Append(notes, Note("FALLING", result, ok))
    /\ pc' = "done"
    /\ UNCHANGED <<result, locals>>
    /\ UNCHANGED <<inputs, log, installed, stage, fsWorld, ossWorld>>

\* pushover.send_if_some(.., MAGIC).await, the value of main
MainSummary ==
    /\ op \in NextOps /\ pc = "m_summary"
    /\ \E ok \in BOOLEAN :
        /\ effects' = Append(effects, Eff(IF ok THEN "note_success" ELSE "note_success_failed", "none"))
        /\ notes' = Append(notes, Note("MAGIC", SuccessText, ok))
        /\ Return(send_if_some(ok, "success"))
    /\ UNCHANGED <<inputs, log, installed, stage, fsWorld, ossWorld>>

main ==
    \/ MainPushover \/ MainStartNote \/ MainConfig \/ HugoUpgrade \/ MainHook
    \/ MainSummary

----------------------------------------------------------------------------
(* unzip on its own *)

\* unzip(z, e_name) applied to an archive
Unzip ==
    /\ op = "unzip" /\ pc = "start"
    /\ LET u == unzip(bytes, entry_prefix, platform = "windows") IN
        /\ extracted' = u.entry
        /\ result' = (IF u.res = Running THEN OkRes ELSE u.res)
    /\ pc' = "done"
    /\ UNCHANGED <<frame, version, output, need_fetch, bytes, installed, effects,
                   stage, fsWorld, ossWorld>>

----------------------------------------------------------------------------
(* the log lines that format a secret, on their own *)

\* deploy_github: the git clone line, secret being the access token
LogClone ==
    /\ op = "redact" /\ pc = "start"
    /\ \E username \in Usernames : log' = Append(log, clone_log(username, secret))
    /\ pc' = "done"
    /\ UNCHANGED <<inputs, notes, result, locals, installed, effects, stage, fsWorld, ossWorld>>

\* deploy_step(for_draft = true): the hugo line, secret being the base URL
LogBuild ==
    /\ op = "redact" /\ pc = "start"
    /\ log' = Append(log, hugo_log(secret))
    /\ pc' = "done"
    /\ UNCHANGED <<inputs, notes, result, locals, installed, effects, stage, fsWorld, ossWorld>>

----------------------------------------------------------------------------

Next == CaddyUpgrade \/ deploy \/ main \/ Unzip \/ LogClone \/ LogBuild

Spec == Init /\ [][Next]_vars

----------------------------------------------------------------------------
(* Properties *)

Tool == IF op = "caddy_upgrade" THEN "caddy" ELSE "hugo"
Failed == pc = "done" /\ result.kind \notin {"Ok", "Running"}
LastEffect == effects[Len(effects)]

\* C1: in a caddy upgrade the binary file is written only after a stop of
\* the service has succeeded, and start is issued only after the write
C1_StopWriteStart ==
    op = "caddy_upgrade" =>
        \A i \in 1..Len(effects) :
            /\ effects[i].kind \in {"write", "write_failed"} =>
                   \E j \in 1..(i - 1) : effects[j].kind = "stop"
            /\ effects[i].kind = "start" =>
                   \E j \in 1..(i - 1) : effects[j].kind = "write"

\* C2: when the service cannot be opened or stopped, the upgrade returns an
\* error and this run has not written the binary file
C2_StopFailureNoWrite ==
    (op = "caddy_upgrade" /\ (Did("open_failed") \/ Did("stop_failed"))) =>
        /\ Failed
        /\ installed = {}
        /\ ~Did("write") /\ ~Did("write_failed")

\* C3: when writing the binary or setting its mode fails, the service has
\* been stopped, no start is attempted and the install error is returned
C3_InstallFailureLeavesStopped ==
    (op = "caddy_upgrade" /\ (Did("write_failed") \/ Did("chmod_failed"))) =>
        /\ Failed /\ result.kind = "Io" /\ result.what \in {"write", "chmod"}
        /\ Did("stop") /\ svc = "stopped"
        /\ ~Did("start")

DraftDone == EffC("done", "draft", NoCode)
StageBucket(s) == IF s = "draft" THEN "OSS_DRAFT_BUCKET" ELSE "OSS_PROD_BUCKET"
MirrorChangedBy(s) == mirror[Branch(s)] # mirror0[Branch(s)]
StoreChangedBy(s) == \E o \in store : o.bucket = StageBucket(s)

\* C4: every step of the production stage comes after the draft stage is
\* done; a run that ends in the draft stage ends with that stage's error and
\* has run no production step
C4_DraftGatesProduction ==
    op = "hugo_deploy" =>
        /\ \A i \in 1..Len(effects) :
              effects[i].stage = "production" =>
                  \E j \in 1..(i - 1) : effects[j] = DraftDone
        /\ stage = "production" => \E j \in 1..Len(effects) : effects[j] = DraftDone
        /\ (pc = "done" /\ stage = "draft") =>
              /\ Failed
              /\ \A i \in 1..Len(effects) : effects[i].stage # "production"
              /\ ~StoreChangedBy("production")
              /\ ~MirrorChangedBy("production")
        /\ (pc = "done" /\ result = OkRes) => stage = "production"

\* C4 witness: the draft stage failed at its push
C4_DraftFailedAtPush ==
    /\ op = "hugo_deploy" /\ pc = "done" /\ stage = "draft"
    /\ result = Err("ExecutionFailed", 1, "git")
    /\ LastEffect = EffC("push", "draft", 1)

\* C5: a generator that exits with a non-zero code c ends the run at once:
\* nothing of that stage is published, no later step runs, and deploy
\* returns the execution failure with code c
C5_BuildFailureEndsRun ==
    op = "hugo_deploy" =>
        \A i \in 1..Len(effects) :
            (effects[i].kind = "build" /\ effects[i].code \in 1..MaxExit) =>
                /\ i = Len(effects)
                /\ pc = "done"
                /\ result = Err("ExecutionFailed", effects[i].code, "hugo")
                /\ stage = effects[i].stage
                /\ ~StoreChangedBy(stage)
                /\ ~MirrorChangedBy(stage)

\* C5 witness: the draft build exited with code 1
C5_DraftBuildExitOne ==
    /\ op = "hugo_deploy" /\ Len(effects) > 0
    /\ LastEffect = EffC("build", "draft", 1)
    /\ result = Err("ExecutionFailed", 1, "hugo")

StageFailed(s) == op = "hugo_deploy" /\ Failed /\ stage = s
\* the git publish of the stage got as far as pushing, or skipping the push
PastCommit(s) ==
    \E i \in 1..Len(effects) :
        /\ effects[i].stage = s
        /\ \/ effects[i].kind = "commit_skipped"
           \/ effects[i].kind = "push" /\ effects[i].code = 0

\* C6 (as claimed): a stage that returns an error has changed neither the
\* mirror nor the object store
C6_AllOrNothing ==
    \A s \in {"draft", "production"} :
        StageFailed(s) => ~MirrorChangedBy(s) /\ ~StoreChangedBy(s)

\* C6 (amended): a stage that returns an error raised before its git publish
\* pushed, or skipped the push, has changed neither the mirror nor the
\* object store
C6_NoChangeBeforePush ==
    \A s \in {"draft", "production"} :
        (StageFailed(s) /\ ~PastCommit(s)) =>
            ~MirrorChangedBy(s) /\ ~StoreChangedBy(s)

\* C6 witness: the draft stage failed in its push, of a changed tree
C6_DraftPushFailed ==
    /\ StageFailed("draft") /\ ~PastCommit("draft")
    /\ LastEffect.kind = "push" /\ LastEffect.code = 1
    /\ clone # mirror.draft

NetworkStarted ==
    \/ Did("get") \/ Did("get_failed") \/ Did("clone") \/ Did("push")
    \/ store # {}
    \/ \E k \in Files : tasks[k] # "none"

\* C7: with an environment variable of the hugo deploy absent, no network
\* operation is started
C7_NoNetworkWhenEnvAbsent ==
    (op = "hugo_deploy" /\ absent # {}) => ~NetworkStarted

\* the version probe ran, exited 0, and need_fetch has been decided
Checked == pc \in {"c_checked", "h_checked"} /\ output.status = 0

\* C8 (as claimed): need_fetch is false exactly when stdout is "<tool> v<v>"
C8_ExactBanner ==
    Checked => (~need_fetch <=> output.stdout = <<Tool, " ", "v">> \o version)

\* C8 (amended): need_fetch is false exactly when stdout starts with
\* "hugo v<v>" for hugo and with "v<v>" for caddy
C8_PrefixBanner ==
    Checked =>
        LET b == IF Tool = "hugo" THEN <<"hugo", " ", "v">> \o version
                 ELSE <<"v">> \o version
            s == output.stdout
        IN ~need_fetch <=>
              /\ Len(b) <= Len(s)
              /\ \A i \in 1..Len(b) : s[i] = b[i]

\* C8 witness: characters follow the version and the fetch is skipped
C8_ExtraAfterVersion ==
    /\ Checked /\ op = "hugo_deploy" /\ ~need_fetch
    /\ output.stdout = <<"hugo", " ", "v">> \o version \o <<"extra">>

\* the version probe could not be spawned
ProbeMissing ==
    Len(effects) > 0 /\ effects[1].kind = "probe" /\ effects[1].code = SpawnErr
Fetching ==
    \/ pc \in {"c_checked", "h_checked", "c_open", "c_get", "h_get"}
          /\ need_fetch /\ result = Running
    \/ Did("get") \/ Did("get_failed")

\* C9 (as claimed): for either tool a missing binary is no error, the run
\* goes on to fetch
C9_MissingBinaryFetches == ProbeMissing => Fetching

\* C9 (amended): for hugo a missing binary is no error and the run goes on
\* to fetch; for caddy it ends the run with the deploy-manually error, and
\* nothing is fetched or written
C9_MissingBinaryHugoFetches ==
    ProbeMissing =>
        IF Tool = "hugo" THEN Fetching
        ELSE /\ pc = "done"
             /\ result = Err("NeedManualDeploy", NoCode, "caddy")
             /\ Len(effects) = 1 /\ installed = {} /\ svc = "running"

\* C9 witness: hugo was missing and the download was issued
C9_HugoMissingFetched ==
    op = "hugo_deploy" /\ ProbeMissing /\ Did("get")

\* the version probe ran and did not exit 0
ProbeFailed ==
    Len(effects) > 0 /\ effects[1].kind = "probe" /\ effects[1].code \in FailStatuses

\* C10: a version probe that exits non-zero ends the run with the execution
\* failure carrying its code; nothing is fetched or written and the service
\* is not touched
C10_ProbeFailureIsFatal ==
    ProbeFailed =>
        /\ pc = "done"
        /\ result = Err("ExecutionFailed", effects[1].code, Tool)
        /\ Len(effects) = 1
        /\ installed = {} /\ svc = "running" /\ store = {}

\* C10 witness: caddy version exited with code 1
C10_CaddyProbeExitOne ==
    op = "caddy_upgrade" /\ ProbeFailed /\ effects[1].code = 1 /\ pc = "done"

\* the steps of the fetch block of upgrade
FetchKinds ==
    {"open", "open_failed", "get", "get_failed", "write", "write_failed",
     "chmod", "chmod_failed", "stop", "stop_failed", "start"}
FetchPcs ==
    {"c_open", "c_get", "c_unzip", "c_stop", "c_write", "c_chmod", "c_start",
     "h_get", "h_unzip", "h_write", "h_chmod"}

\* C11: once the version check has set need_fetch to false the upgrade is
\* over, successfully: no GET, no extraction, no write or chmod, no stop or
\* start of the service; a GET is issued only in runs where need_fetch is
\* true
C11_SkipGoesToReady ==
    /\ ~need_fetch =>
          /\ \A i \in 1..Len(effects) : effects[i].kind \notin FetchKinds
          /\ pc \notin FetchPcs
          /\ installed = {} /\ bytes = NoBody /\ extracted = NoEntry
          /\ svc = "running"
          /\ (pc = "done" /\ op \in {"caddy_upgrade", "next_upgrade_hugo"}) =>
                result = OkRes
    /\ (Did("get") \/ Did("get_failed")) => need_fetch

\* C11 witness: caddy had the requested version and the upgrade returned
C11_CaddySkipped ==
    /\ op = "caddy_upgrade" /\ pc = "done" /\ ~need_fetch
    /\ result = OkRes /\ Len(effects) = 1 /\ effects[1].kind = "probe"

\* C12: a run issues at most one GET; a GET that fails (transport, or a
\* non-2xx status) ends the upgrade with that error: nothing is extracted
\* and no file is written
C12_SingleGetNoRetry ==
    /\ Cardinality({i \in 1..Len(effects) :
                       effects[i].kind \in {"get", "get_failed"}}) <= 1
    /\ Did("get_failed") =>
          /\ pc \in {"done", "m_hook"}
          /\ result.kind = "Network"
          /\ bytes = NoBody /\ extracted = NoEntry /\ installed = {}
          /\ \A i \in 1..Len(effects) :
                effects[i].kind \notin {"write", "write_failed", "chmod", "chmod_failed"}

\* C12 witness: the release host answered the GET of caddy with an error
\* status
C12_GetRefused ==
    /\ op = "caddy_upgrade" /\ pc = "done" /\ Len(effects) > 0
    /\ LastEffect.kind = "get_failed"
    /\ result = Err("Network", NoCode, "status")

\* C13 (as claimed): an extracted entry of zero bytes is never written:
\* with such an entry in hand no write has been made and no file exists
C13_EmptyPayloadRejected ==
    (extracted # NoEntry /\ extracted.contents = <<>>) =>
        /\ ~Did("write") /\ ~Did("write_failed")
        /\ installed = {}

\* the entry has a file name, and that name starts with the prefix
Matches(e, p) == HasFileName(e.path) /\ StartsWith(FileName(e.path), <<p>>)
MatchingEntries ==
    {i \in 1..Len(bytes.entries) : Matches(bytes.entries[i], entry_prefix)}
\* the path gives a file name, and on the zip platform stays in the archive
SafeEntry(e) ==
    HasFileName(e.path) /\ (platform = "windows" => Enclosed(e.path))
\* unzip has been applied to the archive in bytes
Unzipped == op = "unzip" /\ pc = "done"
Extracted(e) == [name |-> FileName(e.path), contents |-> e.contents]

ReadyAfterInstall ==
    /\ op \in HugoOps /\ Did("write")
    /\ platform = "windows" \/ Did("chmod")

\* C16 (as claimed): the path Hugo::upgrade yields after an install is the
\* path of the file it wrote, and on POSIX that file is executable
C16_YieldedPathInstalled ==
    ReadyAfterInstall =>
        \E f \in installed :
            /\ f.name = Yielded
            /\ platform # "windows" => f.exec

\* git commit ran and exited non-zero
CommitExitedNonZero(e) ==
    e.kind \in {"commit_skipped", "commit_failed"} /\ e.code \in FailStatuses

\* C17: with no change in the tree of the clone there is no commit and no
\* push; the commit that did not take place is no error of the stage; and
\* when deploy_github has returned Ok the clone is gone
C17_NoChangeSkipsPush ==
    op = "hugo_deploy" =>
        /\ pc = "g_push" => clone # mirror[Branch(stage)]
        /\ \A i \in 1..Len(effects) :
              CommitExitedNonZero(effects[i]) =>
                  /\ effects[i].kind = "commit_skipped"
                  /\ \A j \in (i + 1)..Len(effects) :
                        effects[j].stage = effects[i].stage =>
                            effects[j].kind \notin {"commit", "push"}
                  /\ (i = Len(effects) /\ pc = "done" /\ clone # "absent") =>
                        result.what \in {"set_current_dir", "remove_dir_all"}
        /\ pc = "o_cd" => clone = "absent" /\ cwd = "ws"

\* C17 witness: the draft build equals the draft branch; deploy_github has
\* returned without a push and the clone is gone
C17_DraftUnchangedPublished ==
    /\ op = "hugo_deploy" /\ stage = "draft" /\ pc = "o_cd"
    /\ LastEffect.kind = "commit_skipped"
    /\ public = mirror.draft /\ mirror = mirror0
    /\ clone = "absent"

\* join of the stage's upload tasks has returned
JoinFailed == pc = "done" /\ result.kind = "Upload" /\ result.what = "join"
JoinReturned ==
    /\ op = "hugo_deploy"
    /\ pc \in {"o_sync", "o_cdback"} \/ JoinFailed

\* C18: when join returns every dispatched task has run to its end, and the
\* object of every task that did not fail is in the store, whether or not a
\* sibling failed
C18_JoinWaitsForAll ==
    JoinReturned =>
        \A k \in Files :
            /\ tasks[k] # "pending"
            /\ k \in sync_files => tasks[k] \in {"ok", "failed"}
            /\ tasks[k] = "ok" => FileObject(k) \in store

\* C18 witness: task 1 failed, its sibling is done and its object is there
C18_SiblingOfFailedTaskDone ==
    /\ JoinReturned /\ JoinFailed
    /\ 2 \in sync_files
    /\ tasks[1] = "failed" /\ tasks[2] = "ok" /\ FileObject(2) \in store

\* C19: join returns Ok only when no task failed (an empty task set
\* included), and an error only when one did; the error is that of a task
\* that failed
C19_JoinErrorIffTaskFailed ==
    op = "hugo_deploy" =>
        /\ pc \in {"o_sync", "o_cdback"} => \A k \in Files : tasks[k] # "failed"
        /\ JoinFailed => result.code \in sync_files /\ tasks[result.code] = "failed"

\* C19 witness: join of an empty task set returned Ok
C19_EmptyTaskSetJoined ==
    /\ op = "hugo_deploy" /\ stage = "draft" /\ pc = "o_sync"
    /\ sync_files = {} /\ tasks = NoTasks

\* C20 (as claimed): a run of bin/next.rs in which no step other than a
\* notification failed returns Ok
C20_NotifyNeverFailsCaller ==
    (op \in NextOps /\ pc = "done" /\ result.kind \in {"Ok", "Notify"}) =>
        result = OkRes

\* main returned the error of get_pushover or of a notification
SinkFailure == result.kind = "Notify" \/ result.what \in PushoverVars
LastNote == notes[Len(notes)]

\* C21: a deploy run of bin/next.rs in which loading the configuration or
\* the upgrade failed has tried to send the failure note, formatted from
\* that error, before it returns; it returns an error, and that error is
\* the one the note was formatted from whether or not the note was sent
C21_FailureNotified ==
    (op \in NextOps /\ is_deploy) =>
        /\ (pc = "done" /\ Failed /\ ~SinkFailure) =>
              /\ Len(notes) > 0
              /\ LastNote.sound = "FALLING" /\ LastNote.text = result
              /\ LastEffect.kind \in {"note_failure", "note_failure_failed"}
        /\ \A i \in 1..Len(notes) :
              notes[i].sound = "FALLING" =>
                  /\ pc = "done" /\ Failed
                  /\ result = notes[i].text

\* C21 witness: hugo version exited with 1, the failure note could not be
\* sent, main returns the error of the probe
C21_ProbeErrorSurvivesHook ==
    /\ op = "next_deploy_hugo" /\ pc = "done"
    /\ Len(effects) > 0 /\ Len(notes) > 0
    /\ LastEffect.kind = "note_failure_failed"
    /\ result = Err("ExecutionFailed", 1, "hugo")
    /\ LastNote = Note("FALLING", result, FALSE)

TerminalNotes == {i \in 1..Len(notes) : notes[i].sound \in {"FALLING", "MAGIC"}}
StepKinds == {"probe", "get", "get_failed", "write", "write_failed", "chmod", "chmod_failed"}

\* C29: in a deploy run of bin/next.rs the start note goes out before the
\* configuration is loaded and before any step of the upgrade; at most one
\* of the failure note and the success note is tried, it is the last thing
\* the run does, the success note only after a run without a failed step,
\* the failure note only in a run that returns an error
C29_NotificationOrder ==
    op \in NextOps =>
        /\ ~is_deploy => notes = <<>>
        /\ (is_deploy /\ pc \notin {"start", "m_start", "done"}) =>
              Len(notes) > 0 /\ notes[1] = Note("BIKE", StartText, TRUE)
        /\ (is_deploy /\ \E i \in 1..Len(effects) : effects[i].kind \in StepKinds) =>
              effects[1].kind = "note_start" /\ notes[1].sound = "BIKE"
        /\ Cardinality(TerminalNotes) <= 1
        /\ \A i \in TerminalNotes :
              /\ i = Len(notes) /\ pc = "done"
              /\ LastEffect.kind \in
                    {"note_failure", "note_failure_failed", "note_success", "note_success_failed"}
              /\ notes[i].sound = "MAGIC" =>
                    /\ result.kind \in {"Ok", "Notify"}
                    /\ \A j \in 1..Len(effects) :
                          /\ effects[j].kind \notin
                                {"get_failed", "write_failed", "chmod_failed",
                                 "note_failure", "note_failure_failed"}
                          /\ effects[j].kind = "probe" => effects[j].code \in {0, SpawnErr}
              /\ notes[i].sound = "FALLING" => Failed /\ ~SinkFailure

\* C29 witness: hugo was fetched and installed between the start note and
\* the success note
C29_StartInstallSuccess ==
    /\ op = "next_deploy_hugo" /\ pc = "done" /\ result = OkRes
    /\ Did("write")
    /\ Len(notes) = 2 /\ notes[1].sound = "BIKE" /\ notes[2].sound = "MAGIC"


\* where deploy_step is: in its build, in deploy_github, in deploy_oss
BuildPcs == {"s_baseurl", "s_build"}
GitPcs ==
    {"g_clone", "g_cd", "g_email", "g_name", "g_checkout", "g_rmpublic",
     "g_copy", "g_add", "g_commit", "g_push", "g_cdback", "g_rmclone"}
OssPcs == {"o_cd", "o_init", "o_push", "o_join", "o_sync", "o_cdback"}
\* a subprocess of a step that made the step fail
StepFailure(e) ==
    \/ e.kind \in {"build", "clone", "push"} /\ e.code # 0
    \/ e.kind = "commit_failed"

\* C23: in a stage the workspace is cleaned first, the build runs right
\* after the clean, the git publish starts right after a build that exited
\* with 0, the store publish starts only after the git publish got past its
\* commit and removed its clone, and the stage is done only after that; a
\* step that fails is the last thing the run does
C23_StepsInOrder ==
    op = "hugo_deploy" =>
        /\ \A i \in 1..Len(effects) :
              LET e == effects[i] IN
              /\ e.kind = "clean" =>
                    \/ /\ e.stage = "draft"
                       /\ \A j \in 1..(i - 1) : effects[j].stage = "none"
                    \/ i > 1 /\ e.stage = "production" /\ effects[i - 1] = DraftDone
              /\ e.kind = "build" => i > 1 /\ effects[i - 1] = Eff("clean", e.stage)
              /\ e.kind = "clone" => i > 1 /\ effects[i - 1] = EffC("build", e.stage, 0)
              /\ e.kind = "done" =>
                    \E j \in 1..(i - 1) :
                        /\ effects[j].stage = e.stage
                        /\ \/ effects[j].kind = "commit_skipped"
                           \/ effects[j].kind = "push" /\ effects[j].code = 0
              /\ StepFailure(e) => i = Len(effects) /\ Failed /\ stage = e.stage
        /\ pc \in BuildPcs => LastEffect = Eff("clean", stage)
        /\ pc \in GitPcs =>
              \E i \in 1..Len(effects) : effects[i] = EffC("build", stage, 0)
        /\ pc \in OssPcs => PastCommit(stage) /\ clone = "absent"
        /\ \A s \in {"draft", "production"} : StoreChangedBy(s) => PastCommit(s)
        /\ \A s \in {"draft", "production"} :
              StageFailed(s) => \A i \in 1..Len(effects) : effects[i] # Eff("done", s)

\* C23 witness: the draft stage ran its four steps to the end and the
\* production stage has cleaned the workspace
C23_DraftStageRanInOrder ==
    /\ op = "hugo_deploy" /\ stage = "production" /\ pc = "s_build"
    /\ \E i \in 1..(Len(effects) - 2) :
          /\ effects[i] = Eff("clean", "draft")
          /\ effects[i + 1] = EffC("build", "draft", 0)
          /\ effects[i + 2] = EffC("clone", "draft", 0)
    /\ effects[Len(effects) - 1] = DraftDone
    /\ StoreChangedBy("draft")

\* C24 (as claimed): deploy_github goes on without a push only when the tree
\* of the clone, after the copy, equals the branch it is on
C24_SkipOnlyWhenUnchanged ==
    (op = "hugo_deploy" /\ pc = "g_cdback" /\ LastEffect.kind = "commit_skipped")
        => ~TreeChanged


StageEndpoint(s) == IF s = "draft" THEN "OSS_DRAFT_ENDPOINT" ELSE "OSS_PROD_ENDPOINT"

NormalComponent(name) == name # <<>> /\ name \notin {DotDot, Root}

\* C26: unzip either fails or returns a name that is one normal component
\* of the path of an entry of the archive, whatever the paths of the
\* entries; an entry it visits whose path gives no file name, or in a zip
\* leaves the archive, makes it fail with the path error; and every file an
\* upgrade writes, it writes under such a name beside the executable
C26_NameIsOneComponent ==
    /\ Unzipped =>
          /\ result = OkRes =>
                /\ NormalComponent(extracted.name)
                /\ \E i \in 1..Len(bytes.entries) :
                      /\ \A j \in 1..i : SafeEntry(bytes.entries[j])
                      /\ extracted.name = FileName(bytes.entries[i].path)
          /\ result # OkRes => extracted = NoEntry
          /\ (bytes.valid /\ Len(bytes.entries) > 0 /\ ~SafeEntry(bytes.entries[1])) =>
                result.kind \in {"UnsafePath", "BadFileName"}
    /\ extracted # NoEntry => NormalComponent(extracted.name)
    /\ \A f \in installed : NormalComponent(f.name)

\* C26 witness: the tar.gz archive has the binary at ../hugo; unzip returns
\* the name hugo
C26_ParentPathGivesFileName ==
    /\ Unzipped /\ platform = "linux" /\ entry_prefix = "hugo"
    /\ bytes = Archive(<<Entry(<<DotDot, <<"hugo">>>>, <<4>>)>>)
    /\ result = OkRes
    /\ extracted = [name |-> <<"hugo">>, contents |-> <<4>>]


\* where a step of deploy_step begins: remove_public, the build,
\* deploy_github, deploy_oss
StepStarts == {"s_clean", "s_baseurl", "s_build", "g_clone", "o_cd"}

\* C27: each step of a stage begins in the directory deploy was started in;
\* a deploy that returns Ok ends there; the directory is another one only
\* inside deploy_github or deploy_oss, or after an error that ended the run
C27_StepsStartInWorkspace ==
    op = "hugo_deploy" =>
        /\ pc \in StepStarts => cwd = "ws"
        /\ stage = "none" => cwd = "ws"
        /\ (pc = "done" /\ result = OkRes) => cwd = "ws"
        /\ cwd = "repo" =>
              \/ pc \in GitPcs \ {"g_clone", "g_cd", "g_rmclone"}
              \/ Failed /\ result.what \in {"git", "remove_public", "dir::copy",
                                             "git commit", "set_current_dir"}
        /\ cwd = "public" =>
              \/ pc \in OssPcs \ {"o_cd"}
              \/ Failed /\ PastCommit(stage)

\* C27 witness: deploy_oss of the production stage begins in the workspace,
\* after deploy_github and deploy_oss of the draft stage and deploy_github
\* of the production stage went into the clone, or public, and came back
C27_StoreStepStartsInWorkspace ==
    /\ op = "hugo_deploy" /\ stage = "production" /\ pc = "o_cd" /\ cwd = "ws"
    /\ LastEffect = EffC("push", "production", 0)
    /\ StoreChangedBy("draft")


\* C28: the copy is made into a clone whose public directory is gone, so
\* after a push that succeeded the branch of the stage holds the tree the
\* build of that stage made, with nothing of the tree it held before; and
\* from the start of deploy_github to its return public of the workspace
\* is the tree the build made
C28_MirrorEqualsBuiltOutput ==
    op = "hugo_deploy" =>
        /\ pc = "g_copy" => clone = "empty"
        /\ \A s \in {"draft", "production"} :
              (\E i \in 1..Len(effects) : effects[i] = EffC("push", s, 0)) =>
                  mirror[Branch(s)] = Built(s)
        /\ pc \in GitPcs \cup {"o_cd"} => public = Built(stage)

\* C28 witness: the draft branch held another tree; the draft push has
\* succeeded and the branch holds the draft build
C28_OldDraftTreeReplaced ==
    /\ op = "hugo_deploy" /\ stage = "draft" /\ pc = "g_cdback"
    /\ mirror0.draft = "old"
    /\ LastEffect = EffC("push", "draft", 0)
    /\ mirror.draft = Built("draft")
    /\ public = Built("draft")

====
